---- MODULE Spec2Model ----
(***************************************************************************)
(* Dividend and quote collector (src/dividendos_v5.py; the dividend loop   *)
(* of src/dividendos_v2.py is the same code).                              *)
(*                                                                         *)
(* Monetary values are integers counted in units of 10^-5, so that the     *)
(* 4-decimal normalisation of formatar_valor is a real rounding step.      *)
(* A ticker is a natural number; the order of the numbers stands for the   *)
(* lexicographic order of the ticker strings.  A provider date is the      *)
(* record [year, month, day]; the text date written by strftime is the     *)
(* tuple <<day, month, year>>, whose lexicographic order is the order of   *)
(* the strings "dd-mm-yyyy".                                               *)
(***************************************************************************)
EXTENDS Integers, Sequences, FiniteSets, TLC

\* ------------------------------------------------------------------ bounds

\* Largest magnitude, in units of 10^-5, of a value formatar_valor is called
\* alone with.
MaxValor == 60

\* Longest list of tickers the directory (investpy) returns.
MaxLista == 2

\* Longest history (number of events) the provider returns for one ticker.
MaxSerie == 2

\* Largest max_retries a call is made with (the calls use 0..MaxTentativas).
MaxTentativas == 3

\* Largest year a call is configured with; the years are 1..MaxAno.
MaxAno == 4

\* ----------------------------------------------------------- input domains

\* datetime.now().year
AnoAtual == 2

\* float('nan'): a value outside the range of the amounts, told apart by IsNa
NaN == 999999

Anos == 1..MaxAno

\* The tickers, in lexicographic order of their names.
Tickers == {1, 2, 3}

\* Provider timestamps: one day of year 1 and two days of year 2 whose text
\* order ("01-02-0002" before "02-01-0002") is not their calendar order.
Datas ==
    {[year |-> 1, month |-> 1, day |-> 3],
     [year |-> 2, month |-> 1, day |-> 2],
     [year |-> 2, month |-> 2, day |-> 1]}

\* Provider amounts, in units of 10^-5: missing, -0.00035, 0, 0.00004
\* (normalised to 0) and 0.00005 (the half-way case, normalised to 0.0001).
Valores == {NaN, 0 - 35, 0, 4, 5}

\* One dividend event of a provider series: (index timestamp, value).
Eventos == [data : Datas, valor : Valores]

\* Calendar order of two timestamps.
DataAntes(a, b) ==
    \/ a.year < b.year
    \/ a.year = b.year /\ a.month < b.month
    \/ a.year = b.year /\ a.month = b.month /\ a.day < b.day

\* The series a provider can return: at most MaxSerie events, in ascending
\* calendar order of their index.
Series ==
    {s \in UNION {[1..n -> Eventos] : n \in 0..MaxSerie} :
        \A i \in 1..(Len(s) - 1) : DataAntes(s[i].data, s[i + 1].data)}

\* One daily quote of a provider history: (Date, Open, Close).
Cotacoes == [data : Datas, open : {10}, close : {20}]

\* The histories a provider can return: at most MaxSerie days, ascending.
Historicos ==
    {h \in UNION {[1..n -> Cotacoes] : n \in 0..MaxSerie} :
        \A i \in 1..(Len(h) - 1) : DataAntes(h[i].data, h[i + 1].data)}

\* ------------------------------------------------------------ pure helpers

\* pd.isna(valor)
IsNa(v) == v = NaN

\* A rounding whose halves all go up (towards +infinity): floor(v/10 + 1/2)
QuantizeParaCima(v) == ((v + 5) \div 10) * 10

\* Decimal.quantize(Decimal('0.0001'), rounding=ROUND_HALF_UP): to a multiple
\* of 10 units, a half going away from zero.
Quantize(v) ==
    IF v >= 0 THEN ((v + 5) \div 10) * 10 ELSE 0 - (((0 - v) + 5) \div 10) * 10

\* formatar_valor(valor)
formatar_valor(valor) == IF IsNa(valor) THEN 0 ELSE Quantize(valor)

\* data.strftime('%d-%m-%Y'): the text "dd-mm-yyyy" as its three fields.
Strftime(data) == <<data.day, data.month, data.year>>

\* Order of two texts "dd-mm-yyyy" as strings.
TextoAntes(a, b) ==
    \/ a[1] < b[1]
    \/ a[1] = b[1] /\ a[2] < b[2]
    \/ a[1] = b[1] /\ a[2] = b[2] /\ a[3] < b[3]

\* float addition of two amounts (NaN is absorbing)
Soma(a, b) == IF IsNa(a) \/ IsNa(b) THEN NaN ELSE a + b

\* ------------------------------------------------- dividend loop body

\* A period test that forgets the lower bound: data.year <= ano_fim
NoPeriodoSoFim(data, ai, af) == data.year <= af

\* ano_inicio <= data.year <= ano_fim
NoPeriodo(data, ai, af) == ai <= data.year /\ data.year <= af

\* An amount test that forgets pd.isna: valor <= 0 alone, False for NaN
ValorInvalidoSemNa(valor) == ~IsNa(valor) /\ valor <= 0

\* pd.isna(valor) or valor <= 0   (NaN <= 0 is False for a float)
ValorInvalido(valor) == IsNa(valor) \/ (~IsNa(valor) /\ valor <= 0)

\* the row appended to dados_dividendos for one accepted event
Registro(ticker, ev) ==
    [Data |-> Strftime(ev.data), Acao |-> ticker,
     Valor |-> formatar_valor(ev.valor), Ano |-> ev.data.year]

\* An accumulation that writes "=" for "+=": the last amount replaces the total
AcumularSobrescrevendo(anuais, ticker, ano, valor_formatado) ==
    IF \E i \in 1..Len(anuais) : anuais[i].chave = <<ticker, ano>>
    THEN [i \in 1..Len(anuais) |->
            IF anuais[i].chave = <<ticker, ano>>
            THEN [anuais[i] EXCEPT !.total = valor_formatado]
            ELSE anuais[i]]
    ELSE Append(anuais, [chave |-> <<ticker, ano>>, total |-> valor_formatado])

\* dividendos_anuais[chave] += valor_formatado, or a new key at the end.  The
\* dict is the sequence of its items in insertion order.
AcumularAnual(anuais, ticker, ano, valor_formatado) ==
    IF \E i \in 1..Len(anuais) : anuais[i].chave = <<ticker, ano>>
    THEN [i \in 1..Len(anuais) |->
            IF anuais[i].chave = <<ticker, ano>>
            THEN [anuais[i] EXCEPT !.total = Soma(@, valor_formatado)]
            ELSE anuais[i]]
    ELSE Append(anuais, [chave |-> <<ticker, ano>>, total |-> valor_formatado])

\* The same pass with "tem_dividendos_no_periodo = True" written before the
\* test of the amount: an event in the period sets it, valid or not.
RECURSIVE ProcessarSerieMarcaAntes(_, _, _, _, _, _)
ProcessarSerieMarcaAntes(dividends, i, ticker, ai, af, acc) ==
    IF i > Len(dividends) THEN acc
    ELSE LET ev == dividends[i] IN
         IF NoPeriodo(ev.data, ai, af) /\ ~ValorInvalido(ev.valor)
         THEN ProcessarSerieMarcaAntes(dividends, i + 1, ticker, ai, af,
                [dados |-> Append(acc.dados, Registro(ticker, ev)),
                 anuais |-> AcumularAnual(acc.anuais, ticker, ev.data.year,
                                          formatar_valor(ev.valor)),
                 tem |-> TRUE])
         ELSE ProcessarSerieMarcaAntes(dividends, i + 1, ticker, ai, af,
                [acc EXCEPT !.tem = @ \/ NoPeriodo(ev.data, ai, af)])

\* One pass of "for data, valor in dividends.items()" from event i on, over
\* the accumulators acc = [dados, anuais, tem].
RECURSIVE ProcessarSerie(_, _, _, _, _, _)
ProcessarSerie(dividends, i, ticker, ai, af, acc) ==
    IF i > Len(dividends) THEN acc
    ELSE LET ev == dividends[i] IN
         IF NoPeriodo(ev.data, ai, af) /\ ~ValorInvalido(ev.valor)
         THEN ProcessarSerie(dividends, i + 1, ticker, ai, af,
                [dados |-> Append(acc.dados, Registro(ticker, ev)),
                 anuais |-> AcumularAnual(acc.anuais, ticker, ev.data.year,
                                          formatar_valor(ev.valor)),
                 tem |-> TRUE])
         ELSE ProcessarSerie(dividends, i + 1, ticker, ai, af, acc)

\* ------------------------------------------------------ tables and ranking

\* sort_values(by=['Acao', 'Data']): Data compared as text
AntesAcaoData(a, b) ==
    \/ a.Acao < b.Acao
    \/ a.Acao = b.Acao /\ TextoAntes(a.Data, b.Data)

\* sort_values(by=['Ano', 'Acao'])
AntesAnoAcao(a, b) ==
    \/ a.Ano < b.Ano
    \/ a.Ano = b.Ano /\ a.Acao < b.Acao

\* sort_values(by=['Ano', 'Ranking'])
AntesAnoRanking(a, b) ==
    \/ a.Ano < b.Ano
    \/ a.Ano = b.Ano /\ a.Ranking < b.Ranking

\* The order of the columns named by "by".
Antes(by, a, b) ==
    CASE by = "AcaoData" -> AntesAcaoData(a, b)
      [] by = "AnoAcao" -> AntesAnoAcao(a, b)
      [] by = "AnoRanking" -> AntesAnoRanking(a, b)
      [] by = "Ticker" -> a < b

\* Stable insertion of x into a sequence sorted by the columns "by".
RECURSIVE Inserir(_, _, _)
Inserir(s, x, by) ==
    IF s = <<>> THEN <<x>>
    ELSE IF Antes(by, x, s[1]) THEN <<x>> \o s
    ELSE <<s[1]>> \o Inserir(Tail(s), x, by)

\* DataFrame.sort_values(by=...): a stable sort.
RECURSIVE Ordenar(_, _)
Ordenar(s, by) ==
    IF s = <<>> THEN <<>>
    ELSE Inserir(Ordenar(SubSeq(s, 1, Len(s) - 1), by), s[Len(s)], by)

\* dados_anuais: one row per item of the dict, the total normalised again
RECURSIVE DadosAnuais(_)
DadosAnuais(anuais) ==
    IF anuais = <<>> THEN <<>>
    ELSE <<[Ano |-> anuais[1].chave[2], Acao |-> anuais[1].chave[1],
            Valor |-> formatar_valor(anuais[1].total)]>>
         \o DadosAnuais(Tail(anuais))

\* The distinct values of a set, largest first.
RECURSIVE Decrescente(_)
Decrescente(S) ==
    IF S = {} THEN <<>>
    ELSE LET m == CHOOSE x \in S : \A y \in S : y <= x
         IN <<m>> \o Decrescente(S \ {m})

\* rank(method='min'): one more than the number of rows of the year above it
RankMin(df, row) ==
    1 + Cardinality({i \in 1..Len(df) : df[i].Ano = row.Ano /\ df[i].Valor > row.Valor})

\* groupby('Ano')['Valor'].rank(method='dense', ascending=False) of one row:
\* the position of its value among the distinct values of its year.
RankDense(df, row) ==
    LET grupo == {df[i].Valor : i \in {j \in 1..Len(df) : df[j].Ano = row.Ano}}
        ordem == Decrescente(grupo)
    IN CHOOSE k \in 1..Len(ordem) : ordem[k] = row.Valor

\* dividendos_anuais_df['Ranking'] = ...
ComRanking(df) ==
    [i \in 1..Len(df) |->
        [Ano |-> df[i].Ano, Acao |-> df[i].Acao, Valor |-> df[i].Valor,
         Ranking |-> RankDense(df, df[i])]]

\* fillna(0.0) when min or max of the column is NaN (all values missing)
FillNa(df) ==
    IF df # <<>> /\ \A i \in 1..Len(df) : IsNa(df[i].Valor)
    THEN [i \in 1..Len(df) |-> [df[i] EXCEPT !.Valor = 0]]
    ELSE df

\* The annual table returned: sorted, ranked, sorted again.
TabelaAnual(anuais) ==
    Ordenar(ComRanking(FillNa(Ordenar(DadosAnuais(anuais), "AnoAcao"))),
            "AnoRanking")

\* The detailed table returned.
TabelaDetalhada(dados) == Ordenar(dados, "AcaoData")

\* -------------------------------------------------------------------- state

VARIABLES
    pc,                         \* position of the run
    main_ano_inicio,            \* main: ano_inicio
    main_ano_fim,               \* main: ano_fim
    max_retries,                \* the retry budget of the calls
    acoes_brasil,               \* the list obter_lista_acoes returned
    ano_inicio,                 \* coletar_dividendos_periodo: ano_inicio
    ano_fim,                    \* coletar_dividendos_periodo: ano_fim
    acoes_processadas,          \* position in acoes_brasil (loop of the phase)
    attempt,                    \* attempt of the current ticker
    dados_dividendos,           \* list of detailed rows
    dividendos_anuais,          \* dict (ticker, ano) -> total, as its items
    acoes_com_dividendos,       \* counter
    acoes_com_dividendos_lista, \* tickers that had a dividend in the period
    acoes_com_erro,             \* counter
    dividendos_df,              \* detailed table returned
    dividendos_anuais_df,       \* annual table returned
    arquivos,                   \* names of the files written so far
    estatisticas,               \* years gerar_estatisticas reported on
    chamada,                    \* the last provider call and the sleeps after it
    dividends,                  \* the series the last successful fetch returned
    resultado,                  \* ticker -> how its attempts of the phase ended
    cotacoes_por_ano,           \* dict ano -> quote rows
    acoes_com_cotacoes_lista,   \* tickers with quotes
    acoes_sem_cotacoes,         \* counter
    arquivos_cotacoes,          \* years whose quote file is written
    historico,                  \* the history the last quote call returned
    fv_valor,                   \* formatar_valor called alone: its argument
    fv_retornos                 \* and what its calls returned, in order

vars ==
    <<pc, main_ano_inicio, main_ano_fim, max_retries, acoes_brasil, ano_inicio,
      ano_fim, acoes_processadas, attempt, dados_dividendos, dividendos_anuais,
      acoes_com_dividendos, acoes_com_dividendos_lista, acoes_com_erro,
      dividendos_df, dividendos_anuais_df, arquivos, estatisticas, chamada,
      dividends, resultado, cotacoes_por_ano, acoes_com_cotacoes_lista, acoes_sem_cotacoes,
      arquivos_cotacoes, historico, fv_valor, fv_retornos>>

\* ------------------------------------------------------------ configuration

\* The hardcoded list of obter_lista_acoes (here two tickers).
ListaPredefinida == <<2, 1>>

\* list(set(acoes_brasil)): each ticker once.  A set has no defined order;
\* the order of the first occurrences is the one modelled.
RECURSIVE RemoverDuplicatas(_)
RemoverDuplicatas(l) ==
    IF l = <<>> THEN <<>>
    ELSE LET resto == RemoverDuplicatas(SubSeq(l, 1, Len(l) - 1))
         IN IF \E i \in 1..Len(resto) : resto[i] = l[Len(l)]
            THEN resto ELSE Append(resto, l[Len(l)])

\* obter_lista_acoes()
obter_lista_acoes == RemoverDuplicatas(ListaPredefinida)

\* A validation that clamps and never exchanges the two years
ValidarSemTroca(ai, af) == <<ai, IF af > AnoAtual THEN AnoAtual ELSE af>>

\* The validation of the period: the end year clamped to the current year,
\* then the two years exchanged when the start is after the end.
ValidarPeriodo(ai, af) ==
    LET fim == IF af > AnoAtual THEN AnoAtual ELSE af
    IN IF ai > fim THEN <<fim, ai>> ELSE <<ai, fim>>

SemChamada == [fase |-> "nenhuma", ok |-> FALSE, sleeps |-> <<>>]

\* State at the entry of coletar_dividendos_periodo, called by main with its
\* two years and a retry budget, the list of tickers obtained.
Init ==
    /\ pc = "validar"
    /\ main_ano_inicio \in Anos
    /\ main_ano_fim \in Anos
    /\ max_retries \in 0..MaxTentativas
    /\ acoes_brasil = obter_lista_acoes
    /\ ano_inicio = main_ano_inicio
    /\ ano_fim = main_ano_fim
    /\ acoes_processadas = 0
    /\ attempt = 0
    /\ dados_dividendos = <<>>
    /\ dividendos_anuais = <<>>
    /\ acoes_com_dividendos = 0
    /\ acoes_com_dividendos_lista = <<>>
    /\ acoes_com_erro = 0
    /\ dividendos_df = <<>>
    /\ dividendos_anuais_df = <<>>
    /\ arquivos = {}
    /\ estatisticas = <<>>
    /\ chamada = SemChamada
    /\ dividends = <<>>
    /\ resultado = [t \in Tickers |-> "nenhum"]
    /\ cotacoes_por_ano = <<>>
    /\ acoes_com_cotacoes_lista = <<>>
    /\ acoes_sem_cotacoes = 0
    /\ arquivos_cotacoes = {}
    /\ historico = <<>>
    /\ fv_valor = 0
    /\ fv_retornos = <<>>

\* variables of the quote phase
varsCotacoes ==
    <<cotacoes_por_ano, acoes_com_cotacoes_lista, acoes_sem_cotacoes,
      arquivos_cotacoes, historico>>

\* variables of the calls of formatar_valor made alone
varsFormatar == <<fv_valor, fv_retornos>>

\* variables of main and of the call
varsMain ==
    <<main_ano_inicio, main_ano_fim, max_retries, acoes_brasil, estatisticas>>

\* the accumulators of the dividend loop
varsAcumuladores ==
    <<dados_dividendos, dividendos_anuais, acoes_com_dividendos,
      acoes_com_dividendos_lista>>

\* the ticker of the current iteration
Ticker == acoes_brasil[acoes_processadas]

\* ------------------------------------------------- coletar_dividendos_periodo

\* "Validar periodo": clamp, then swap.
Validar ==
    /\ pc = "validar"
    /\ ano_inicio' = ValidarPeriodo(ano_inicio, ano_fim)[1]
    /\ ano_fim' = ValidarPeriodo(ano_inicio, ano_fim)[2]
    /\ pc' = "loop"
    /\ UNCHANGED <<varsFormatar, varsMain, varsCotacoes, varsAcumuladores, acoes_processadas,
                   attempt, acoes_com_erro, dividendos_df, dividendos_anuais_df,
                   arquivos, chamada, dividends, resultado>>

\* "for ticker in acoes_brasil": the next ticker; "for attempt in
\* range(max_retries)" starts at 0 and has no iteration when max_retries <= 0.
\* The series of the ticker before is not read again: the iteration starts
\* with none.
ProximoTicker ==
    /\ pc = "loop"
    /\ acoes_processadas < Len(acoes_brasil)
    /\ acoes_processadas' = acoes_processadas + 1
    /\ attempt' = 0
    /\ dividends' = <<>>
    /\ pc' = IF max_retries > 0 THEN "try" ELSE "loop"
    /\ UNCHANGED <<varsFormatar, varsMain, varsCotacoes, varsAcumuladores, ano_inicio, ano_fim,
                   acoes_com_erro, dividendos_df, dividendos_anuais_df, arquivos,
                   chamada, resultado>>

\* The accumulators created inside "for ticker in acoes_brasil": each ticker
\* starts from an empty list and an empty dict
AposSerieDoZero(serie) ==
    ProcessarSerie(serie, 1, Ticker, ano_inicio, ano_fim,
                   [dados |-> <<>>, anuais |-> <<>>, tem |-> FALSE])

\* The rows and totals after the series "dividends" of the current ticker.
AposSerie(serie) ==
    ProcessarSerie(serie, 1, Ticker, ano_inicio, ano_fim,
                   [dados |-> dados_dividendos, anuais |-> dividendos_anuais,
                    tem |-> FALSE])

\* An attempt whose fetch returns a series: sleep(delay), the events
\* processed, break.
TentativaSucesso(dominio) ==
    /\ pc = "try"
    /\ \E serie \in dominio :
        LET r == AposSerie(serie) IN
        /\ dados_dividendos' = r.dados
        /\ dividendos_anuais' = r.anuais
        /\ acoes_com_dividendos' =
                IF r.tem THEN acoes_com_dividendos + 1 ELSE acoes_com_dividendos
        /\ acoes_com_dividendos_lista' =
                IF r.tem THEN Append(acoes_com_dividendos_lista, Ticker)
                ELSE acoes_com_dividendos_lista
        /\ dividends' = serie
    /\ resultado' = [resultado EXCEPT ![Ticker] = "ok"]
    /\ chamada' = [fase |-> "dividendos", ok |-> TRUE, sleeps |-> <<1>>]
    /\ pc' = "loop"
    /\ UNCHANGED <<varsFormatar, varsMain, varsCotacoes, ano_inicio, ano_fim, acoes_processadas,
                   attempt, acoes_com_erro, dividendos_df, dividendos_anuais_df,
                   arquivos>>

\* A last-attempt test off by one: attempt == max_retries
UltimaTentativaDepois(att) == att = max_retries

\* "if attempt == max_retries - 1": the attempt is the last of the budget.
UltimaTentativa(att) == att = max_retries - 1

\* A backoff that grows with the attempt: time.sleep(delay * 2 * (attempt + 1))
SleepsCrescentes(att) ==
    IF UltimaTentativa(att) THEN <<>> ELSE <<2 * (att + 1)>>

\* The sleeps after a fetch that raised on attempt number att, in units of
\* delay: time.sleep(delay * 2) unless the attempt is the last.
SleepsAposFalha(att) == IF UltimaTentativa(att) THEN <<>> ELSE <<2>>

\* A failure handler that lets the last exception out of the function: the
\* ticker is counted and the call ends there.
TentativaFalhaAborta ==
    /\ pc = "try"
    /\ chamada' = [fase |-> "dividendos", ok |-> FALSE,
                   sleeps |-> SleepsAposFalha(attempt)]
    /\ IF UltimaTentativa(attempt)
       THEN /\ acoes_com_erro' = acoes_com_erro + 1
            /\ resultado' = [resultado EXCEPT ![Ticker] = "erro"]
            /\ pc' = "abortado"
            /\ attempt' = attempt
       ELSE /\ acoes_com_erro' = acoes_com_erro
            /\ resultado' = resultado
            /\ pc' = "try"
            /\ attempt' = attempt + 1
    /\ UNCHANGED <<varsFormatar, varsMain, varsCotacoes, varsAcumuladores, ano_inicio, ano_fim,
                   acoes_processadas, dividendos_df, dividendos_anuais_df,
                   arquivos, dividends>>

\* A failure handler that counts the ticker at each attempt that raises
TentativaFalhaContaTodas ==
    /\ pc = "try"
    /\ chamada' = [fase |-> "dividendos", ok |-> FALSE,
                   sleeps |-> SleepsAposFalha(attempt)]
    /\ acoes_com_erro' = acoes_com_erro + 1
    /\ IF UltimaTentativa(attempt)
       THEN /\ resultado' = [resultado EXCEPT ![Ticker] = "erro"]
            /\ pc' = "loop"
            /\ attempt' = attempt
       ELSE /\ resultado' = resultado
            /\ pc' = "try"
            /\ attempt' = attempt + 1
    /\ UNCHANGED <<varsFormatar, varsMain, varsCotacoes, varsAcumuladores, ano_inicio, ano_fim,
                   acoes_processadas, dividendos_df, dividendos_anuais_df,
                   arquivos, dividends>>

\* An attempt whose fetch raises: the last one counts the ticker as errored,
\* any other sleeps delay * 2 and tries again.
TentativaFalha ==
    /\ pc = "try"
    /\ chamada' = [fase |-> "dividendos", ok |-> FALSE,
                   sleeps |-> SleepsAposFalha(attempt)]
    /\ IF UltimaTentativa(attempt)
       THEN /\ acoes_com_erro' = acoes_com_erro + 1
            /\ resultado' = [resultado EXCEPT ![Ticker] = "erro"]
            /\ pc' = "loop"
            /\ attempt' = attempt
       ELSE /\ acoes_com_erro' = acoes_com_erro
            /\ resultado' = resultado
            /\ pc' = "try"
            /\ attempt' = attempt + 1
    /\ UNCHANGED <<varsFormatar, varsMain, varsCotacoes, varsAcumuladores, ano_inicio, ano_fim,
                   acoes_processadas, dividendos_df, dividendos_anuais_df,
                   arquivos, dividends>>

\* The end of coletar_dividendos_periodo: the two tables built, two empty
\* tables returned when there is no detailed row, else the tables sorted and
\* ranked and the list of the tickers with dividends written, sorted.  The
\* series of the last ticker is not read after the loop and is dropped.
Finalizar ==
    /\ pc = "loop"
    /\ acoes_processadas = Len(acoes_brasil)
    /\ IF dados_dividendos = <<>>
       THEN /\ dividendos_df' = <<>>
            /\ dividendos_anuais_df' = <<>>
            /\ UNCHANGED <<acoes_com_dividendos_lista, arquivos>>
       ELSE /\ dividendos_df' = TabelaDetalhada(dados_dividendos)
            /\ dividendos_anuais_df' = TabelaAnual(dividendos_anuais)
            /\ IF acoes_com_dividendos > 0
               THEN /\ acoes_com_dividendos_lista' =
                        Ordenar(acoes_com_dividendos_lista, "Ticker")
                    /\ arquivos' = arquivos \cup {"acoes_com_dividendos.txt"}
               ELSE UNCHANGED <<acoes_com_dividendos_lista, arquivos>>
    /\ dividends' = <<>>
    /\ pc' = "retornou"
    /\ UNCHANGED <<varsFormatar, varsMain, varsCotacoes, ano_inicio, ano_fim, acoes_processadas,
                   attempt, dados_dividendos, dividendos_anuais,
                   acoes_com_dividendos, acoes_com_erro, chamada, resultado>>

\* The same end when open() of the list file raises: nothing catches it in
\* coletar_dividendos_periodo nor around its call in main.
FinalizarFalhaEscrita ==
    /\ pc = "loop"
    /\ acoes_processadas = Len(acoes_brasil)
    /\ dados_dividendos # <<>>
    /\ acoes_com_dividendos > 0
    /\ acoes_com_dividendos_lista' = Ordenar(acoes_com_dividendos_lista, "Ticker")
    /\ dividends' = <<>>
    /\ pc' = "abortado"
    /\ UNCHANGED <<varsFormatar, varsMain, varsCotacoes, ano_inicio, ano_fim, acoes_processadas,
                   attempt, dados_dividendos, dividendos_anuais,
                   acoes_com_dividendos, acoes_com_erro, dividendos_df,
                   dividendos_anuais_df, arquivos, chamada, resultado>>

\* ---------------------------------------------------------------------- main

\* The files main has written when the write named "falha" raises (the
\* except clause of main catches it): the detailed file, then the annual one.
ArquivosSalvos(falha) ==
    CASE falha = "detalhado" -> {}
      [] falha = "anual" -> {"dividendos.csv"}
      [] falha = "nenhuma" -> {"dividendos.csv", "dividendos_ano.csv"}

\* A main that saves without the test "if not dividendos_df.empty"
MainSalvarSemTeste ==
    /\ pc = "retornou"
    /\ \E falha \in {"nenhuma", "detalhado", "anual"} :
            /\ arquivos' = arquivos \cup ArquivosSalvos(falha)
            /\ estatisticas' =
                    IF falha = "nenhuma"
                    THEN <<main_ano_inicio, main_ano_fim>> ELSE <<>>
    /\ pc' = "cot_loop"
    /\ ano_inicio' = main_ano_inicio
    /\ ano_fim' = main_ano_fim
    /\ cotacoes_por_ano' = [ano \in main_ano_inicio..main_ano_fim |-> <<>>]
    /\ acoes_processadas' = 0
    /\ attempt' = 0
    /\ dados_dividendos' = <<>>
    /\ dividendos_anuais' = <<>>
    /\ acoes_com_dividendos' = 0
    /\ acoes_com_dividendos_lista' = <<>>
    /\ acoes_com_erro' = 0
    /\ dividendos_df' = <<>>
    /\ dividendos_anuais_df' = <<>>
    /\ dividends' = <<>>
    /\ resultado' = [t \in Tickers |-> "nenhum"]
    /\ chamada' = SemChamada
    /\ UNCHANGED <<varsFormatar, main_ano_inicio, main_ano_fim, max_retries,
                   acoes_brasil, acoes_com_cotacoes_lista, acoes_sem_cotacoes,
                   arquivos_cotacoes, historico>>

\* main after the call: the two files and the statistics when the detailed
\* table is not empty; then coletar_todas_cotacoes is entered with the years
\* of main.  The tables and the locals of the dividend call are not read
\* again and are dropped here.
MainSalvar ==
    /\ pc = "retornou"
    /\ IF dividendos_df = <<>>
       THEN UNCHANGED <<arquivos, estatisticas>>
       ELSE \E falha \in {"nenhuma", "detalhado", "anual"} :
                /\ arquivos' = arquivos \cup ArquivosSalvos(falha)
                /\ estatisticas' =
                        IF falha = "nenhuma"
                        THEN <<main_ano_inicio, main_ano_fim>> ELSE <<>>
    /\ pc' = "cot_loop"
    /\ ano_inicio' = main_ano_inicio
    /\ ano_fim' = main_ano_fim
    /\ cotacoes_por_ano' = [ano \in main_ano_inicio..main_ano_fim |-> <<>>]
    /\ acoes_processadas' = 0
    /\ attempt' = 0
    /\ dados_dividendos' = <<>>
    /\ dividendos_anuais' = <<>>
    /\ acoes_com_dividendos' = 0
    /\ acoes_com_dividendos_lista' = <<>>
    /\ acoes_com_erro' = 0
    /\ dividendos_df' = <<>>
    /\ dividendos_anuais_df' = <<>>
    /\ dividends' = <<>>
    /\ resultado' = [t \in Tickers |-> "nenhum"]
    /\ chamada' = SemChamada
    /\ UNCHANGED <<varsFormatar, main_ano_inicio, main_ano_fim, max_retries,
                   acoes_brasil, acoes_com_cotacoes_lista, acoes_sem_cotacoes,
                   arquivos_cotacoes, historico>>

\* ----------------------------------------------------- coletar_todas_cotacoes

\* (Open + Close) / 2 normalised: the half of the sum, to a multiple of 10
\* units, a half going up.
MediaFormatada(open, close) == ((open + close + 10) \div 20) * 10

\* One row of cotacoes_df; Ano is read back from the text date.
LinhaCotacao(ticker, c) ==
    [Data |-> Strftime(c.data), Acao |-> ticker,
     Abertura |-> formatar_valor(c.open), Fechamento |-> formatar_valor(c.close),
     Media |-> MediaFormatada(c.open, c.close), Ano |-> Strftime(c.data)[3]]

\* cotacoes_df of coletar_cotacoes_diarias for a history that is not empty
CotacoesDf(ticker, hist) == [i \in 1..Len(hist) |-> LinhaCotacao(ticker, hist[i])]

\* cotacoes_df[cotacoes_df['Ano'] == ano]
RECURSIVE DoAno(_, _)
DoAno(df, ano) ==
    IF df = <<>> THEN <<>>
    ELSE (IF df[1].Ano = ano THEN <<df[1]>> ELSE <<>>) \o DoAno(Tail(df), ano)

\* A split that assigns the rows of cotacoes_df to the year's table in every
\* case, where the code concatenates when the table is not empty.
ParticionarSubstituindo(porAno, df) ==
    [ano \in DOMAIN porAno |->
        IF DoAno(df, ano) # <<>> THEN DoAno(df, ano) ELSE porAno[ano]]

\* The yearly tables after the rows of cotacoes_df are added, year by year.
Particionar(porAno, df) ==
    [ano \in DOMAIN porAno |-> porAno[ano] \o DoAno(df, ano)]

\* "for ticker in acoes_brasil" of the quote phase: coletar_cotacoes_diarias
\* is called; with no attempt to make it returns an empty table.
CotProximoTicker ==
    /\ pc = "cot_loop"
    /\ acoes_processadas < Len(acoes_brasil)
    /\ acoes_processadas' = acoes_processadas + 1
    /\ attempt' = 0
    /\ historico' = <<>>
    /\ IF max_retries > 0
       THEN pc' = "cot_try" /\ acoes_sem_cotacoes' = acoes_sem_cotacoes
       ELSE pc' = "cot_loop" /\ acoes_sem_cotacoes' = acoes_sem_cotacoes + 1
    /\ UNCHANGED <<varsFormatar, varsMain, varsAcumuladores, ano_inicio, ano_fim, acoes_com_erro,
                   dividendos_df, dividendos_anuais_df, arquivos, chamada,
                   dividends, resultado, cotacoes_por_ano,
                   acoes_com_cotacoes_lista, arquivos_cotacoes>>

\* An attempt whose history call returns: no sleep follows it; an empty
\* history ends the ticker without quotes, any other is split by year.  The
\* history is kept until the next ticker or the end of the loop.
CotTentativaSucesso(dominio) ==
    /\ pc = "cot_try"
    /\ \E hist \in dominio :
        /\ historico' = hist
        /\ IF hist = <<>>
           THEN /\ acoes_sem_cotacoes' = acoes_sem_cotacoes + 1
                /\ UNCHANGED <<acoes_com_cotacoes_lista, cotacoes_por_ano>>
           ELSE /\ acoes_sem_cotacoes' = acoes_sem_cotacoes
                /\ acoes_com_cotacoes_lista' = Append(acoes_com_cotacoes_lista, Ticker)
                /\ cotacoes_por_ano' =
                       Particionar(cotacoes_por_ano, CotacoesDf(Ticker, hist))
    /\ chamada' = [fase |-> "cotacoes", ok |-> TRUE, sleeps |-> <<>>]
    /\ resultado' = [resultado EXCEPT ![Ticker] = "ok"]
    /\ pc' = "cot_loop"
    /\ UNCHANGED <<varsFormatar, varsMain, varsAcumuladores, ano_inicio, ano_fim,
                   acoes_processadas, attempt, acoes_com_erro, dividendos_df,
                   dividendos_anuais_df, arquivos, dividends, arquivos_cotacoes>>

\* An attempt whose history call raises: the last one returns an empty
\* table, any other sleeps delay * 2 and tries again.
CotTentativaFalha ==
    /\ pc = "cot_try"
    /\ chamada' = [fase |-> "cotacoes", ok |-> FALSE,
                   sleeps |-> SleepsAposFalha(attempt)]
    /\ IF UltimaTentativa(attempt)
       THEN /\ acoes_sem_cotacoes' = acoes_sem_cotacoes + 1
            /\ resultado' = [resultado EXCEPT ![Ticker] = "erro"]
            /\ pc' = "cot_loop"
            /\ attempt' = attempt
       ELSE /\ acoes_sem_cotacoes' = acoes_sem_cotacoes
            /\ resultado' = resultado
            /\ pc' = "cot_try"
            /\ attempt' = attempt + 1
    /\ UNCHANGED <<varsFormatar, varsMain, varsAcumuladores, ano_inicio, ano_fim,
                   acoes_processadas, acoes_com_erro, dividendos_df,
                   dividendos_anuais_df, arquivos, dividends, cotacoes_por_ano,
                   acoes_com_cotacoes_lista, arquivos_cotacoes, historico>>

\* The years whose table is not empty.
AnosComCotacoes == {ano \in DOMAIN cotacoes_por_ano : cotacoes_por_ano[ano] # <<>>}

\* The end of coletar_todas_cotacoes with every write succeeding: one file
\* per year whose table is not empty, then the list of tickers with quotes.
CotSalvar ==
    /\ pc = "cot_loop"
    /\ acoes_processadas = Len(acoes_brasil)
    /\ arquivos_cotacoes' = AnosComCotacoes
    /\ IF acoes_com_cotacoes_lista # <<>>
       THEN /\ acoes_com_cotacoes_lista' = Ordenar(acoes_com_cotacoes_lista, "Ticker")
            /\ arquivos' = arquivos \cup {"acoes_com_cotacoes.txt"}
       ELSE UNCHANGED <<acoes_com_cotacoes_lista, arquivos>>
    /\ historico' = <<>>
    /\ pc' = "fim"
    /\ UNCHANGED <<varsFormatar, varsMain, varsAcumuladores, ano_inicio, ano_fim,
                   acoes_processadas, attempt, acoes_com_erro, dividendos_df,
                   dividendos_anuais_df, chamada, dividends, resultado,
                   cotacoes_por_ano, acoes_sem_cotacoes>>

\* The same end when to_csv of the year "falha" raises: the years before it
\* (the dict is in ascending order of year) are written, nothing after it;
\* the except clause of main logs the error and the run ends.
CotSalvarFalha ==
    /\ pc = "cot_loop"
    /\ acoes_processadas = Len(acoes_brasil)
    /\ \E falha \in AnosComCotacoes :
            arquivos_cotacoes' = {ano \in AnosComCotacoes : ano < falha}
    /\ historico' = <<>>
    /\ pc' = "fim"
    /\ UNCHANGED <<varsFormatar, varsMain, varsAcumuladores, ano_inicio, ano_fim,
                   acoes_processadas, attempt, acoes_com_erro, dividendos_df,
                   dividendos_anuais_df, arquivos, chamada, dividends, resultado,
                   cotacoes_por_ano, acoes_com_cotacoes_lista, acoes_sem_cotacoes>>

\* ------------------------------------------------------------- specification

\* One run of main: the dividend phase, the files, the quote phase.
Next ==
    \/ Validar
    \/ ProximoTicker
    \/ TentativaSucesso(Series)
    \/ TentativaFalha
    \/ Finalizar
    \/ FinalizarFalhaEscrita
    \/ MainSalvar
    \/ CotProximoTicker
    \/ CotTentativaSucesso(Historicos)
    \/ CotTentativaFalha
    \/ CotSalvar
    \/ CotSalvarFalha

Spec == Init /\ [][Next]_vars

\* coletar_dividendos_periodo alone, called on a list of three tickers with
\* the period 1..AnoAtual and at least one attempt, the provider returning
\* series of valid amounts: the runs that fill a year with up to three rows.
ListaDeTres == <<3, 1, 2>>

SeriesValidas == {s \in Series : \A i \in 1..Len(s) : s[i].valor \in {4, 5}}

InitRanking ==
    /\ pc = "validar"
    /\ main_ano_inicio = 1
    /\ main_ano_fim = AnoAtual
    /\ max_retries \in 1..MaxTentativas
    /\ acoes_brasil = ListaDeTres
    /\ ano_inicio = main_ano_inicio
    /\ ano_fim = main_ano_fim
    /\ acoes_processadas = 0
    /\ attempt = 0
    /\ dados_dividendos = <<>>
    /\ dividendos_anuais = <<>>
    /\ acoes_com_dividendos = 0
    /\ acoes_com_dividendos_lista = <<>>
    /\ acoes_com_erro = 0
    /\ dividendos_df = <<>>
    /\ dividendos_anuais_df = <<>>
    /\ arquivos = {}
    /\ estatisticas = <<>>
    /\ chamada = SemChamada
    /\ dividends = <<>>
    /\ resultado = [t \in Tickers |-> "nenhum"]
    /\ cotacoes_por_ano = <<>>
    /\ acoes_com_cotacoes_lista = <<>>
    /\ acoes_sem_cotacoes = 0
    /\ arquivos_cotacoes = {}
    /\ historico = <<>>
    /\ fv_valor = 0
    /\ fv_retornos = <<>>

NextRanking ==
    \/ Validar
    \/ ProximoTicker
    \/ TentativaSucesso(SeriesValidas)
    \/ TentativaFalha
    \/ Finalizar
    \/ FinalizarFalhaEscrita

SpecRanking == InitRanking /\ [][NextRanking]_vars

\* formatar_valor called alone on a value, then on what it returned.  The
\* values are -MaxValor..MaxValor units of 10^-5 and NaN.
EntradasFormatar == ((0 - MaxValor)..MaxValor) \cup {NaN}

\* every variable but fv_retornos
varsPrograma ==
    <<pc, main_ano_inicio, main_ano_fim, max_retries, acoes_brasil, ano_inicio,
      ano_fim, acoes_processadas, attempt, dados_dividendos, dividendos_anuais,
      acoes_com_dividendos, acoes_com_dividendos_lista, acoes_com_erro,
      dividendos_df, dividendos_anuais_df, arquivos, estatisticas, chamada,
      dividends, resultado, cotacoes_por_ano, acoes_com_cotacoes_lista,
      acoes_sem_cotacoes, arquivos_cotacoes, historico, fv_valor>>

InitFormatar ==
    /\ pc = "formatar"
    /\ fv_valor \in EntradasFormatar
    /\ fv_retornos = <<>>
    /\ main_ano_inicio = 1
    /\ main_ano_fim = AnoAtual
    /\ max_retries = 1
    /\ acoes_brasil = obter_lista_acoes
    /\ ano_inicio = main_ano_inicio
    /\ ano_fim = main_ano_fim
    /\ acoes_processadas = 0
    /\ attempt = 0
    /\ dados_dividendos = <<>>
    /\ dividendos_anuais = <<>>
    /\ acoes_com_dividendos = 0
    /\ acoes_com_dividendos_lista = <<>>
    /\ acoes_com_erro = 0
    /\ dividendos_df = <<>>
    /\ dividendos_anuais_df = <<>>
    /\ arquivos = {}
    /\ estatisticas = <<>>
    /\ chamada = SemChamada
    /\ dividends = <<>>
    /\ resultado = [t \in Tickers |-> "nenhum"]
    /\ cotacoes_por_ano = <<>>
    /\ acoes_com_cotacoes_lista = <<>>
    /\ acoes_sem_cotacoes = 0
    /\ arquivos_cotacoes = {}
    /\ historico = <<>>

\* formatar_valor(valor)
FormatarValor ==
    /\ pc = "formatar"
    /\ fv_retornos = <<>>
    /\ fv_retornos' = <<formatar_valor(fv_valor)>>
    /\ UNCHANGED varsPrograma

\* formatar_valor(formatar_valor(valor))
FormatarRetorno ==
    /\ pc = "formatar"
    /\ Len(fv_retornos) = 1
    /\ fv_retornos' = Append(fv_retornos, formatar_valor(fv_retornos[1]))
    /\ UNCHANGED varsPrograma

NextFormatar == FormatarValor \/ FormatarRetorno

SpecFormatar == InitFormatar /\ [][NextFormatar]_vars

\* ---------------------------------------------------- src/dividendos_v2.py

\* The outcomes of investpy.get_stocks_list(country='brazil'): an exception,
\* or a list of at most MaxLista tickers, whatever the directory holds (no
\* ticker, the same ticker twice).
RespostasInvestpy ==
    {[ok |-> FALSE, lista |-> <<>>]}
    \cup {[ok |-> TRUE, lista |-> l] :
                l \in UNION {[1..n -> Tickers] : n \in 0..MaxLista}}

\* The backup list of obter_lista_acoes of dividendos_v2.py (here two tickers).
ListaBackup == <<1, 2>>

\* obter_lista_acoes() of dividendos_v2.py: the list of the directory as it
\* came, the backup list when the query raised.
obter_lista_acoes_v2(resposta) ==
    IF resposta.ok THEN resposta.lista ELSE ListaBackup

\* State at the entry of coletar_dividendos_periodo of dividendos_v2.py,
\* before the list of tickers is obtained.
InitV2 ==
    /\ pc = "obter_lista"
    /\ main_ano_inicio = 1
    /\ main_ano_fim = AnoAtual
    /\ max_retries \in 1..MaxTentativas
    /\ acoes_brasil = <<>>
    /\ ano_inicio = main_ano_inicio
    /\ ano_fim = main_ano_fim
    /\ acoes_processadas = 0
    /\ attempt = 0
    /\ dados_dividendos = <<>>
    /\ dividendos_anuais = <<>>
    /\ acoes_com_dividendos = 0
    /\ acoes_com_dividendos_lista = <<>>
    /\ acoes_com_erro = 0
    /\ dividendos_df = <<>>
    /\ dividendos_anuais_df = <<>>
    /\ arquivos = {}
    /\ estatisticas = <<>>
    /\ chamada = SemChamada
    /\ dividends = <<>>
    /\ resultado = [t \in Tickers |-> "nenhum"]
    /\ cotacoes_por_ano = <<>>
    /\ acoes_com_cotacoes_lista = <<>>
    /\ acoes_sem_cotacoes = 0
    /\ arquivos_cotacoes = {}
    /\ historico = <<>>
    /\ fv_valor = 0
    /\ fv_retornos = <<>>

\* acoes_brasil = obter_lista_acoes()
ObterListaV2 ==
    /\ pc = "obter_lista"
    /\ \E resposta \in RespostasInvestpy :
            acoes_brasil' = obter_lista_acoes_v2(resposta)
    /\ pc' = "validar"
    /\ UNCHANGED <<varsFormatar, varsCotacoes, varsAcumuladores, main_ano_inicio,
                   main_ano_fim, max_retries, estatisticas, ano_inicio, ano_fim,
                   acoes_processadas, attempt, acoes_com_erro, dividendos_df,
                   dividendos_anuais_df, arquivos, chamada, dividends, resultado>>

\* The end of coletar_dividendos_periodo of dividendos_v2.py: the tables as
\* in dividendos_v5.py, and no list of tickers written.
FinalizarV2 ==
    /\ pc = "loop"
    /\ acoes_processadas = Len(acoes_brasil)
    /\ IF dados_dividendos = <<>>
       THEN /\ dividendos_df' = <<>>
            /\ dividendos_anuais_df' = <<>>
       ELSE /\ dividendos_df' = TabelaDetalhada(dados_dividendos)
            /\ dividendos_anuais_df' = TabelaAnual(dividendos_anuais)
    /\ dividends' = <<>>
    /\ pc' = "retornou"
    /\ UNCHANGED <<varsFormatar, varsMain, varsCotacoes, varsAcumuladores,
                   ano_inicio, ano_fim, acoes_processadas, attempt,
                   acoes_com_erro, arquivos, chamada, resultado>>

\* coletar_dividendos_periodo of dividendos_v2.py, the provider returning
\* series of valid amounts.
NextV2 ==
    \/ ObterListaV2
    \/ Validar
    \/ ProximoTicker
    \/ TentativaSucesso(SeriesValidas)
    \/ TentativaFalha
    \/ FinalizarV2

SpecV2 == InitV2 /\ [][NextV2]_vars

\* ------------------------------- an attempt that raises while it processes

\* The rows and totals after the events before event k of a series of the
\* current ticker: the pass of "for data, valor in dividends.items()" left
\* at event k by an exception.
AposPrefixo(serie, k) ==
    ProcessarSerie(SubSeq(serie, 1, k - 1), 1, Ticker, ano_inicio, ano_fim,
                   [dados |-> dados_dividendos, anuais |-> dividendos_anuais,
                    tem |-> FALSE])

\* An attempt whose fetch returns a series and whose body raises at event k
\* of it, before that event is appended: the try block covers the whole
\* pass, so the events before k stay appended and accumulated, the flag of
\* the pass is lost before "if tem_dividendos_no_periodo", and the handler
\* runs as for a fetch that raised, after the sleep(delay) already made.
\* The series is not read again: the next attempt fetches anew.
TentativaFalhaParcial ==
    /\ pc = "try"
    /\ \E serie \in Series :
        \E k \in 1..Len(serie) :
            /\ dados_dividendos' = AposPrefixo(serie, k).dados
            /\ dividendos_anuais' = AposPrefixo(serie, k).anuais
    /\ chamada' = [fase |-> "dividendos", ok |-> FALSE,
                   sleeps |-> <<1>> \o SleepsAposFalha(attempt)]
    /\ IF UltimaTentativa(attempt)
       THEN /\ acoes_com_erro' = acoes_com_erro + 1
            /\ resultado' = [resultado EXCEPT ![Ticker] = "erro"]
            /\ pc' = "loop"
            /\ attempt' = attempt
       ELSE /\ acoes_com_erro' = acoes_com_erro
            /\ resultado' = resultado
            /\ pc' = "try"
            /\ attempt' = attempt + 1
    /\ UNCHANGED <<varsFormatar, varsMain, varsCotacoes, acoes_com_dividendos,
                   acoes_com_dividendos_lista, ano_inicio, ano_fim,
                   acoes_processadas, dividendos_df, dividendos_anuais_df,
                   arquivos, dividends>>

\* coletar_dividendos_periodo with attempts that raise at the fetch or
\* inside the pass over the events.
NextParcial ==
    \/ Validar
    \/ ProximoTicker
    \/ TentativaSucesso(Series)
    \/ TentativaFalha
    \/ TentativaFalhaParcial
    \/ Finalizar
    \/ FinalizarFalhaEscrita

\* The call made with the period 1..AnoAtual, which the validation keeps.
InitParcial ==
    /\ Init
    /\ main_ano_inicio = 1
    /\ main_ano_fim = AnoAtual

SpecParcial == InitParcial /\ [][NextParcial]_vars

\* ------------------------------------------------------------------- claims

\* The rows of a table that belong to the year ano.
LinhasDoAno(df, ano) == {i \in 1..Len(df) : df[i].Ano = ano}

\* C1: in the annual table returned, the ranks of the rows of each year are
\* exactly 1..k, k the number of distinct totals of the year; two rows of a
\* year have the same rank iff they have the same total, and a larger total
\* has a strictly smaller rank.
C1_RankingDenso ==
    pc = "retornou" =>
        \A ano \in {dividendos_anuais_df[i].Ano : i \in 1..Len(dividendos_anuais_df)} :
            LET df == dividendos_anuais_df
                L == LinhasDoAno(df, ano)
                k == Cardinality({df[i].Valor : i \in L})
            IN /\ {df[i].Ranking : i \in L} = 1..k
               /\ \A i, j \in L :
                    /\ (df[i].Ranking = df[j].Ranking) <=> (df[i].Valor = df[j].Valor)
                    /\ df[i].Valor > df[j].Valor => df[i].Ranking < df[j].Ranking

\* A year with three rows, two of them tied above the third: ranks 1, 1, 2.
C1_Witness ==
    /\ pc = "retornou"
    /\ \E i, j, l \in 1..Len(dividendos_anuais_df) :
        LET df == dividendos_anuais_df IN
        /\ i # j /\ df[i].Ano = df[j].Ano /\ df[j].Ano = df[l].Ano
        /\ df[i].Valor = 20 /\ df[j].Valor = 20 /\ df[l].Valor = 10
        /\ df[i].Ranking = 1 /\ df[j].Ranking = 1 /\ df[l].Ranking = 2

\* The run is just after an attempt of the dividend loop that did not raise:
\* "dividends" is the series of the ticker of the iteration.
AposSucesso == pc = "loop" /\ chamada.fase = "dividendos" /\ chamada.ok

\* The rows of a detailed table written for the event ev of a ticker.
LinhasDoEvento(df, ticker, ev) ==
    {i \in 1..Len(df) : df[i].Acao = ticker /\ df[i].Data = Strftime(ev.data)}

\* The sum, from event i on, of the normalised amounts of the events of a
\* series that are of the year ano, inside [ai, af], not missing and above 0.
RECURSIVE SomaDosValidos(_, _, _, _, _)
SomaDosValidos(serie, i, ano, ai, af) ==
    IF i > Len(serie) THEN 0
    ELSE (IF /\ serie[i].data.year = ano
             /\ ai <= ano /\ ano <= af
             /\ serie[i].valor # NaN /\ serie[i].valor > 0
          THEN formatar_valor(serie[i].valor) ELSE 0)
         + SomaDosValidos(serie, i + 1, ano, ai, af)

\* The running total of (ticker, ano) in the dict, 0 when the key is absent.
TotalAnual(anuais, ticker, ano) ==
    IF \E j \in 1..Len(anuais) : anuais[j].chave = <<ticker, ano>>
    THEN anuais[CHOOSE j \in 1..Len(anuais) : anuais[j].chave = <<ticker, ano>>].total
    ELSE 0

\* C2: after a ticker's series is processed, no row of the detailed list
\* stands for an event of the series whose amount is missing or <= 0, and
\* each (ticker, year) total is the sum of the valid in-range amounts alone,
\* whatever the other events of the series are.
C2_InvalidosExcluidos ==
    AposSucesso =>
        /\ \A i \in 1..Len(dividends) :
                (dividends[i].valor = NaN \/ dividends[i].valor <= 0)
                    => LinhasDoEvento(dados_dividendos, Ticker, dividends[i]) = {}
        /\ \A ano \in Anos :
                TotalAnual(dividendos_anuais, Ticker, ano)
                    = SomaDosValidos(dividends, 1, ano, ano_inicio, ano_fim)

\* A series of one negative and one valid amount in the same year, the
\* year inside the period: one row, and a total of the valid amount alone.
C2_Witness ==
    /\ AposSucesso
    /\ Len(dividends) = 2
    /\ dividends[1].valor < 0 /\ dividends[2].valor = 5
    /\ dividends[1].data.year = 2 /\ dividends[2].data.year = 2
    /\ NoPeriodo(dividends[1].data, ano_inicio, ano_fim)
    /\ LinhasDoEvento(dados_dividendos, Ticker, dividends[1]) = {}
    /\ LinhasDoEvento(dados_dividendos, Ticker, dividends[2]) # {}
    /\ TotalAnual(dividendos_anuais, Ticker, 2) = 10

\* The sum of Valor over the rows of (ticker, ano) of a detailed table, from
\* row i on.
RECURSIVE SomaDetalhada(_, _, _, _)
SomaDetalhada(df, i, ticker, ano) ==
    IF i > Len(df) THEN 0
    ELSE (IF df[i].Acao = ticker /\ df[i].Ano = ano THEN df[i].Valor ELSE 0)
         + SomaDetalhada(df, i + 1, ticker, ano)

\* A detailed table has a row of (ticker, ano).
TemRegistro(df, ticker, ano) ==
    \E i \in 1..Len(df) : df[i].Acao = ticker /\ df[i].Ano = ano

\* C3: at every point of the dividend phase the dict of totals, and at the
\* return the annual table, is the group-by-sum of the detailed rows: one and
\* only one entry of (ticker, year) iff there is a detailed row of it, its
\* value the normalised sum of the Valor of those rows.
C3_SomaPorGrupo ==
    \A t \in Tickers, ano \in Anos :
        /\ Cardinality({j \in 1..Len(dividendos_anuais) :
                            dividendos_anuais[j].chave = <<t, ano>>})
              = IF TemRegistro(dados_dividendos, t, ano) THEN 1 ELSE 0
        /\ TemRegistro(dados_dividendos, t, ano) =>
              formatar_valor(TotalAnual(dividendos_anuais, t, ano))
                = formatar_valor(SomaDetalhada(dados_dividendos, 1, t, ano))
        /\ pc = "retornou" =>
              LET linhas == {j \in 1..Len(dividendos_anuais_df) :
                                /\ dividendos_anuais_df[j].Acao = t
                                /\ dividendos_anuais_df[j].Ano = ano}
              IN /\ Cardinality(linhas)
                      = IF TemRegistro(dividendos_df, t, ano) THEN 1 ELSE 0
                 /\ \A j \in linhas :
                      dividendos_anuais_df[j].Valor
                        = formatar_valor(SomaDetalhada(dividendos_df, 1, t, ano))

\* The tables returned hold two rows of 0.0001 of one ticker in year 2 and
\* the annual row of their sum, 0.0002.
C3_Witness ==
    /\ pc = "retornou"
    /\ \E t \in Tickers :
        /\ Cardinality({i \in 1..Len(dividendos_df) :
                /\ dividendos_df[i].Acao = t /\ dividendos_df[i].Ano = 2
                /\ dividendos_df[i].Valor = 10}) = 2
        /\ \E j \in 1..Len(dividendos_anuais_df) :
                /\ dividendos_anuais_df[j].Acao = t
                /\ dividendos_anuais_df[j].Ano = 2
                /\ dividendos_anuais_df[j].Valor = 20

\* A point of the run where events are filtered or about to be: the period
\* is validated and coletar_dividendos_periodo has not returned.
Filtrando == pc \in {"loop", "try"}

\* C4 (as stated): a call made with an end year after the current year
\* filters with the current year as its end year, for every start year.
C4_FimLimitado ==
    (Filtrando /\ main_ano_fim > AnoAtual) => ano_fim = AnoAtual

Linhas(df) == {df[i] : i \in 1..Len(df)}

\* C6: during coletar_dividendos_periodo every row of the detailed list, and
\* of the detailed table returned, has its year inside the validated range;
\* after a ticker's series is processed every event of it with an amount
\* that is not missing and above 0 and a year inside the range has its row;
\* and the table returned holds the rows of the list, no more and no fewer.
C6_RegistrosNoPeriodo ==
    /\ pc \in {"loop", "try", "retornou", "abortado"} =>
            \A r \in Linhas(dados_dividendos) \cup Linhas(dividendos_df) :
                ano_inicio <= r.Ano /\ r.Ano <= ano_fim
    /\ AposSucesso =>
            \A i \in 1..Len(dividends) :
                LET ev == dividends[i] IN
                (/\ ev.valor # NaN /\ ev.valor > 0
                 /\ ano_inicio <= ev.data.year /\ ev.data.year <= ano_fim)
                    => \E r \in Linhas(dados_dividendos) :
                            /\ r.Acao = Ticker
                            /\ r.Data = Strftime(ev.data)
                            /\ r.Ano = ev.data.year
                            /\ r.Valor = formatar_valor(ev.valor)
    /\ pc = "retornou" =>
            /\ Linhas(dividendos_df) = Linhas(dados_dividendos)
            /\ Len(dividendos_df) = Len(dados_dividendos)

\* A series with a valid event in year 1 and one in year 2 is processed with
\* the range 2..2: the event of year 2 has its row, the one of year 1 has none.
C6_Witness ==
    /\ AposSucesso
    /\ ano_inicio = 2 /\ ano_fim = 2
    /\ Len(dividends) = 2
    /\ dividends[1].data.year = 1 /\ dividends[1].valor = 5
    /\ dividends[2].data.year = 2 /\ dividends[2].valor = 5
    /\ LinhasDoEvento(dados_dividendos, Ticker, dividends[1]) = {}
    /\ LinhasDoEvento(dados_dividendos, Ticker, dividends[2]) # {}

\* The tickers of the list whose attempts of the phase have ended as "como".
Terminaram(como) ==
    {i \in 1..Len(acoes_brasil) : resultado[acoes_brasil[i]] = como}

\* What C7 states of the two fetch loops, for the retry budget of the call:
\* an attempt is made only within the budget and only for a ticker that has
\* neither succeeded nor been given up; a ticker whose iteration is over was
\* attempted, and either an attempt of it did not raise or all max_retries
\* attempts raised and it is recorded (counted in acoes_com_erro, or in
\* acoes_sem_cotacoes in the quote phase); at the end of each loop every
\* ticker of the list was attempted (the run has no other end: an attempt
\* that raises leaves it in the loop); and after a ticker comes the next
\* ticker or the end of the loop.
RegrasDasTentativas ==
    /\ pc \in {"try", "cot_try"} =>
            /\ attempt < max_retries
            /\ resultado[Ticker] = "nenhum"
    /\ (pc \in {"loop", "cot_loop"} /\ acoes_processadas >= 1) =>
            /\ resultado[Ticker] \in {"ok", "erro"}
            /\ resultado[Ticker] = "erro" => attempt + 1 = max_retries
            /\ resultado[Ticker] = "ok" => attempt + 1 <= max_retries
    /\ pc \in {"loop", "try", "retornou", "abortado"} =>
            acoes_com_erro = Cardinality(Terminaram("erro"))
    /\ pc \in {"cot_loop", "cot_try", "fim"} =>
            acoes_sem_cotacoes >= Cardinality(Terminaram("erro"))
    /\ pc \in {"retornou", "abortado", "fim"} =>
            /\ acoes_processadas = Len(acoes_brasil)
            /\ Terminaram("nenhum") = {}
    /\ pc \in {"loop", "cot_loop"} =>
            \/ acoes_processadas < Len(acoes_brasil)
            \/ acoes_processadas = Len(acoes_brasil)

DadosDoTicker(t) ==
    {r \in Linhas(dados_dividendos) \cup Linhas(dividendos_df) : r.Acao = t}
    \cup {r \in Linhas(dividendos_anuais_df) : r.Acao = t}
    \cup {k \in Linhas(dividendos_anuais) : k.chave[1] = t}

\* C8 (as stated; it holds when attempts raise at the fetch only, and not when
\* one raises inside the pass over the events): a ticker whose attempts all raised has
\* no row in the detailed data, no annual total, and is not in the list of
\* tickers with dividends; and when the function ends, by its return or at
\* the writing of that list, every ticker of the list has been processed.
C8_FalhaNaoContribui ==
    pc \in {"loop", "try", "retornou", "abortado"} =>
        \A t \in Tickers :
            resultado[t] = "erro" =>
                /\ DadosDoTicker(t) = {}
                /\ t \notin Linhas(acoes_com_dividendos_lista)
                /\ pc \in {"retornou", "abortado"} =>
                        /\ acoes_processadas = Len(acoes_brasil)
                        /\ Terminaram("nenhum") = {}

\* The first ticker of the list failed on all its attempts; the second,
\* after it, was processed and is the only one in the data and in the list
\* written.
C8_Witness ==
    /\ pc = "retornou"
    /\ resultado[acoes_brasil[1]] = "erro"
    /\ resultado[acoes_brasil[2]] = "ok"
    /\ DadosDoTicker(acoes_brasil[2]) # {}
    /\ acoes_com_dividendos_lista = <<acoes_brasil[2]>>
    /\ "acoes_com_dividendos.txt" \in arquivos

\* C9 (as stated): after every history call of the two loops, whether it
\* returned or raised, the fixed delay (1 unit) is among the sleeps made.
C9_DelayFixo ==
    chamada.fase # "nenhuma" =>
        \E i \in 1..Len(chamada.sleeps) : chamada.sleeps[i] = 1

\* C10 (as stated): every row of the detailed list and of the detailed table
\* returned has a stored amount above 0.
C10_ValorPositivo ==
    \A r \in Linhas(dados_dividendos) \cup Linhas(dividendos_df) : r.Valor > 0

\* The magnitude of an integer.
Abs(n) == IF n < 0 THEN 0 - n ELSE n

\* C11: what formatar_valor returns for a value is the value rounded to
\* 4 decimals (a multiple of 10 units at most half a step away, the half-way
\* cases going away from zero), 0.0 for a missing value; and formatar_valor
\* of what it returned is what it returned.
C11_Idempotente ==
    /\ Len(fv_retornos) >= 1 =>
            LET r == fv_retornos[1] IN
            IF fv_valor = NaN THEN r = 0
            ELSE /\ r % 10 = 0
                 /\ Abs(r - fv_valor) <= 5
                 /\ Abs(r - fv_valor) = 5 => Abs(r) > Abs(fv_valor)
    /\ Len(fv_retornos) = 2 => fv_retornos[2] = fv_retornos[1]

\* -0.00015, a negative half-way case: -0.0002, and -0.0002 again.
C11_Witness ==
    /\ fv_valor = 0 - 15
    /\ fv_retornos = <<0 - 20, 0 - 20>>

\* C12 (as stated): the list of tickers obtained holds no ticker twice, and
\* no attempt is made for a ticker that the run has already fetched or given
\* up.
C12_SemRepetidos ==
    /\ \A i, j \in 1..Len(acoes_brasil) :
            i # j => acoes_brasil[i] # acoes_brasil[j]
    /\ pc = "try" => resultado[Ticker] = "nenhum"

\* C13 (as stated): once obtained, the list of tickers is not empty.
C13_ListaNaoVazia == pc # "obter_lista" => acoes_brasil # <<>>

\* Calendar order of two text dates <<day, month, year>>.
CalendarioAntes(a, b) ==
    \/ a[3] < b[3]
    \/ a[3] = b[3] /\ a[2] < b[2]
    \/ a[3] = b[3] /\ a[2] = b[2] /\ a[1] < b[1]

\* C14 (as stated): in the detailed table returned the rows are in order of
\* ticker, and the rows of one ticker are in ascending calendar order of
\* their date: no row is followed by a row of the same ticker of an earlier
\* date.
C14_OrdemCalendario ==
    pc = "retornou" =>
        \A i, j \in 1..Len(dividendos_df) :
            i < j =>
                /\ dividendos_df[i].Acao <= dividendos_df[j].Acao
                /\ dividendos_df[i].Acao = dividendos_df[j].Acao =>
                        ~CalendarioAntes(dividendos_df[j].Data, dividendos_df[i].Data)

\* C15 (as stated): a failure to write a file of the dividend phase does not
\* end the run: the run is never ended before the quote phase.
C15_EscritaNaoEncerra == pc # "abortado"

\* C16 (as stated): when the run has ended, at most the quote file of one
\* year that has quotes is missing, and the list of the tickers with quotes
\* is written if there is a ticker with quotes.
C16_SoUmAnoPerdido ==
    pc = "fim" =>
        /\ Cardinality(AnosComCotacoes \ arquivos_cotacoes) <= 1
        /\ acoes_com_cotacoes_lista # <<>> =>
                "acoes_com_cotacoes.txt" \in arquivos

\* The tickers that have a row in a detailed table.
TickersDe(df) == {df[i].Acao : i \in 1..Len(df)}

\* C17: in coletar_dividendos_periodo the list of tickers with dividends
\* names each ticker at most once and names exactly the tickers that have a
\* row in the detailed list; when the list is written, the tickers written
\* are exactly those that have a row in the detailed table returned.
C17_ListaIgualTabela ==
    /\ pc \in {"loop", "try", "retornou", "abortado"} =>
            /\ \A i, j \in 1..Len(acoes_com_dividendos_lista) :
                    i # j => acoes_com_dividendos_lista[i]
                                # acoes_com_dividendos_lista[j]
            /\ Linhas(acoes_com_dividendos_lista) = TickersDe(dados_dividendos)
    /\ (pc = "retornou" /\ "acoes_com_dividendos.txt" \in arquivos) =>
            Linhas(acoes_com_dividendos_lista) = TickersDe(dividendos_df)

\* With two attempts per ticker, the list written names the two tickers,
\* sorted, and each has rows in the table returned.
C17_Witness ==
    /\ pc = "retornou"
    /\ max_retries = 2
    /\ "acoes_com_dividendos.txt" \in arquivos
    /\ acoes_com_dividendos_lista = <<1, 2>>
    /\ TickersDe(dividendos_df) = {1, 2}

\* C17 (as stated, with attempts that may raise inside the pass over the
\* events): when the list of tickers with dividends is written, the tickers
\* it names are the tickers that have a row in the detailed table returned.
C17_ListaEscrita ==
    (pc = "retornou" /\ "acoes_com_dividendos.txt" \in arquivos) =>
        Linhas(acoes_com_dividendos_lista) = TickersDe(dividendos_df)

\* The run is just after a quote call that returned: "historico" is the
\* history of the ticker of the iteration.
AposCotacao == pc = "cot_loop" /\ chamada.fase = "cotacoes" /\ chamada.ok

\* The places <<ano, k>> of the yearly tables that hold the row r.
LugaresDe(r) ==
    {par \in UNION {{<<ano, k>> : k \in 1..Len(cotacoes_por_ano[ano])} :
                        ano \in DOMAIN cotacoes_por_ano} :
        cotacoes_por_ano[par[1]][par[2]] = r}

\* No yearly table holds a row of another year; and after a ticker's history
\* is split every day of it whose year is in [ano_inicio, ano_fim] has its
\* row at one and only one place of the tables, in the table of its year.
PartesPorAno ==
    /\ \A ano \in DOMAIN cotacoes_por_ano :
            \A k \in 1..Len(cotacoes_por_ano[ano]) :
                cotacoes_por_ano[ano][k].Ano = ano
    /\ AposCotacao =>
            \A i \in 1..Len(historico) :
                LET c == historico[i] IN
                (ano_inicio <= c.data.year /\ c.data.year <= ano_fim) =>
                    /\ Cardinality(LugaresDe(LinhaCotacao(Ticker, c))) = 1
                    /\ \A par \in LugaresDe(LinhaCotacao(Ticker, c)) :
                            par[1] = c.data.year

\* Across a step every yearly table keeps its rows, in place: the table
\* before is a prefix of the table after.
TabelasSoCrescem ==
    \A ano \in DOMAIN cotacoes_por_ano :
        /\ ano \in DOMAIN cotacoes_por_ano'
        /\ Len(cotacoes_por_ano[ano]) <= Len(cotacoes_por_ano'[ano])
        /\ SubSeq(cotacoes_por_ano'[ano], 1, Len(cotacoes_por_ano[ano]))
                = cotacoes_por_ano[ano]

\* C18: in coletar_todas_cotacoes every quote row of a ticker whose year is
\* in [ano_inicio, ano_fim] is in exactly one yearly table, that of its year;
\* no yearly table holds a row of another year; and no step, the split of a
\* later ticker included, takes a row out of a yearly table.
C18_ParticaoPorAno == []PartesPorAno /\ [][TabelasSoCrescem]_vars

\* The table of year 2 holds a row of the first ticker of the list and,
\* after it, the row of the second ticker, whose history was just split.
C18_Witness ==
    /\ AposCotacao
    /\ acoes_processadas = 2
    /\ Len(historico) = 1 /\ historico[1].data.year = 2
    /\ 2 \in DOMAIN cotacoes_por_ano
    /\ Len(cotacoes_por_ano[2]) = 2
    /\ cotacoes_por_ano[2][1].Acao = acoes_brasil[1]
    /\ cotacoes_por_ano[2][2] = LinhaCotacao(acoes_brasil[2], historico[1])

\* C19 (as stated): the range the quote phase works on, the years of its
\* yearly tables and the range the statistics report on are the validated
\* range of coletar_dividendos_periodo, whatever the years configured in main.
C19_MesmoPeriodo ==
    LET validado == ValidarPeriodo(main_ano_inicio, main_ano_fim) IN
    /\ pc \in {"cot_loop", "cot_try", "fim"} =>
            /\ <<ano_inicio, ano_fim>> = validado
            /\ DOMAIN cotacoes_por_ano = validado[1]..validado[2]
    /\ estatisticas # <<>> => estatisticas = validado

\* C20: in the two retry loops a call that raised on an attempt that is not
\* the last is followed by one sleep of delay * 2 (2 units), whatever the
\* number of the attempt, before the next attempt; a call that raised on the
\* last attempt is followed by no sleep.
C20_EsperaDobrada ==
    /\ (pc \in {"try", "cot_try"} /\ attempt >= 1) =>
            /\ ~chamada.ok
            /\ chamada.sleeps = <<2>>
    /\ (/\ pc \in {"loop", "cot_loop"}
        /\ acoes_processadas >= 1
        /\ resultado[Ticker] = "erro") =>
            /\ ~chamada.ok
            /\ chamada.sleeps = <<>>

\* The second of three attempts of a ticker has just raised: the sleep
\* before the third is delay * 2, as after the first.
C20_Witness ==
    /\ pc = "try"
    /\ max_retries = 3
    /\ attempt = 2
    /\ ~chamada.ok
    /\ chamada.sleeps = <<2>>

\* The symbol loop of coletar_dividendos_periodo: between two tickers, or
\* inside the attempts of one.
NoLoop == pc \in {"loop", "try"}

\* Across a step the detailed list keeps every row it had, unchanged and in
\* place.
DadosSoCrescem ==
    /\ Len(dados_dividendos) <= Len(dados_dividendos')
    /\ SubSeq(dados_dividendos', 1, Len(dados_dividendos)) = dados_dividendos

\* Across a step every key of the dict of totals is kept, its total is not
\* below what it was, and a total that changed, or a key that was added, is
\* keyed by the ticker of the iteration the step works on.
TotaisSoCrescem ==
    /\ \A i \in 1..Len(dividendos_anuais) :
            \E j \in 1..Len(dividendos_anuais') :
                /\ dividendos_anuais'[j].chave = dividendos_anuais[i].chave
                /\ dividendos_anuais'[j].total >= dividendos_anuais[i].total
    /\ \A j \in 1..Len(dividendos_anuais') :
            LET k == dividendos_anuais'[j].chave IN
            TotalAnual(dividendos_anuais', k[1], k[2])
                    # TotalAnual(dividendos_anuais, k[1], k[2])
                \/ ~(\E i \in 1..Len(dividendos_anuais) :
                        dividendos_anuais[i].chave = k)
            => /\ pc = "try"
               /\ k[1] = Ticker

\* C21: during the symbol loop of coletar_dividendos_periodo a row of the
\* detailed list is never removed or modified, a (ticker, year) total never
\* decreases and its key is never deleted, and processing a ticker changes or
\* adds no total keyed by another ticker.
C21_AcumuladoresSoCrescem ==
    [][(NoLoop /\ NoLoop') => (DadosSoCrescem /\ TotaisSoCrescem)]_vars

\* The second ticker of the list was just processed: the rows and the total
\* of the first ticker are still there, before those of the second.
C21_Witness ==
    /\ AposSucesso
    /\ acoes_processadas = 2
    /\ Len(dados_dividendos) >= 2
    /\ dados_dividendos[1].Acao = acoes_brasil[1]
    /\ dados_dividendos[Len(dados_dividendos)].Acao = acoes_brasil[2]
    /\ Len(dividendos_anuais) >= 2
    /\ dividendos_anuais[1].chave[1] = acoes_brasil[1]
    /\ dividendos_anuais[Len(dividendos_anuais)].chave[1] = acoes_brasil[2]

\* The rows of the detailed list written for ticker t on the text date d.
LinhasDe(t, d) ==
    {i \in 1..Len(dados_dividendos) :
        dados_dividendos[i].Acao = t /\ dados_dividendos[i].Data = d}

\* C22 (as stated): a series has one event for a date, and in the dividend
\* loop, whatever attempts raised at the fetch or inside the pass and were
\* retried, the detailed list has at most one row for a ticker and a date,
\* and the (ticker, year) total is the amount of each such event taken once.
C22_NoMaximoUmaVez ==
    pc \in {"loop", "try"} =>
        \A t \in Tickers :
            /\ \A i \in 1..Len(dados_dividendos) :
                    dados_dividendos[i].Acao = t =>
                        Cardinality(LinhasDe(t, dados_dividendos[i].Data)) = 1
            /\ \A ano \in Anos :
                    TotalAnual(dividendos_anuais, t, ano)
                        = SomaDetalhada(dados_dividendos, 1, t, ano)

\* The symbol loop of coletar_dividendos_periodo has ended: every ticker of
\* the list was iterated, and the function is at its end or past it.
FimDoLoop ==
    \/ pc = "loop" /\ acoes_processadas = Len(acoes_brasil)
    \/ pc \in {"retornou", "abortado"}

\* Every ticker of the list either had an attempt that did not raise or is
\* counted as errored, never neither; acoes_com_erro is the number of tickers
\* whose attempts all raised; and acoes_com_dividendos is at most the number
\* of tickers that completed an attempt.
ResultadosNoFim ==
    /\ Terminaram("nenhum") = {}
    /\ Terminaram("ok") \cup Terminaram("erro") = 1..Len(acoes_brasil)
    /\ acoes_com_erro = Cardinality(Terminaram("erro"))
    /\ acoes_com_dividendos <= Cardinality(Terminaram("ok"))

\* C23 (as stated): when the symbol loop ends the outcomes and the counters
\* are as above, for every max_retries, 0 included.
C23_Resultados == FimDoLoop => ResultadosNoFim

\* C23 (amended): when the symbol loop ends the outcomes and the counters
\* are as above for max_retries >= 1; with max_retries = 0 no ticker of the
\* list has any outcome and the two counters are 0.
C23_ResultadosComOrcamento ==
    FimDoLoop =>
        IF max_retries >= 1 THEN ResultadosNoFim
        ELSE /\ Terminaram("nenhum") = 1..Len(acoes_brasil)
             /\ acoes_com_erro = 0
             /\ acoes_com_dividendos = 0

\* The loop ended with a budget of three attempts: the first ticker of the
\* list completed its third attempt with no dividend in the period, the
\* second raised three times and is the one ticker counted as errored.
C23_Witness ==
    /\ pc = "loop"
    /\ acoes_processadas = Len(acoes_brasil)
    /\ max_retries = 3
    /\ resultado[acoes_brasil[1]] = "ok"
    /\ resultado[acoes_brasil[2]] = "erro"
    /\ acoes_com_erro = 1
    /\ acoes_com_dividendos = 0
    /\ attempt = 2

\* coletar_dividendos_periodo has returned and no event of any ticker had
\* qualified: the detailed list is empty.
RetornouSemEventos == pc = "retornou" /\ dados_dividendos = <<>>

\* With no event qualified the function returns two empty tables, no rank
\* computed, and has written no file; and it never ends at the writing of
\* the list of tickers.
RetornoVazio ==
    /\ RetornouSemEventos =>
            /\ dividendos_df = <<>>
            /\ dividendos_anuais_df = <<>>
            /\ acoes_com_dividendos = 0
            /\ arquivos = {}
    /\ pc = "abortado" => dados_dividendos # <<>>

\* The step of main after such a return writes no file, reports no
\* statistics, and enters the quote phase.
MainSemArquivos ==
    RetornouSemEventos =>
        /\ arquivos' = {}
        /\ estatisticas' = <<>>
        /\ pc' = "cot_loop"

\* C24: when no event of any ticker qualifies, coletar_dividendos_periodo
\* returns two empty tables without ranks and without writing the list of
\* tickers, main writes neither the detailed nor the annual file and
\* reports no statistics, and main goes on to the quote phase.
C24_SemEventos == []RetornoVazio /\ [][MainSemArquivos]_vars

\* The function returned two empty tables and no file is written: the first
\* ticker of the list raised on all its attempts and the second completed
\* an attempt that appended nothing.
C24_Witness ==
    /\ RetornouSemEventos
    /\ dividendos_df = <<>>
    /\ dividendos_anuais_df = <<>>
    /\ arquivos = {}
    /\ resultado[acoes_brasil[1]] = "erro"
    /\ resultado[acoes_brasil[2]] = "ok"
    /\ chamada.ok

====
